---- MODULE Spec2Model ----
(***************************************************************************)
(* shurl (src/src/main.rs): one run of main() allocates a short name,      *)
(* writes the redirect artifact <name>.html, appends an entry to           *)
(* index.html, commits the working tree on HEAD and runs                   *)
(* `git push origin master`.  The model runs main() up to MaxRuns times    *)
(* against one repository directory.                                       *)
(*                                                                         *)
(* File names are sequences of bytes; a file's content is the sequence of  *)
(* the documents written into it, so that truncation (fs::write) and       *)
(* append (OpenOptions::append) differ.  Short names are single path       *)
(* segments, so repo_path.join(f) names the file f of the repository       *)
(* directory and its last component is f.                                  *)
(***************************************************************************)
EXTENDS Integers, Sequences, FiniteSets, TLC

\* Number of runs of main() the model performs.
MaxRuns == 3

\* b'a' and b'z', the two ends of gen_range(b'a'..b'z'); 5 characters per name.
ByteA == 97
ByteZ == 122
NameLen == 5

\* The bytes the model draws characters from: the lowest letter and 'z'.
Alphabet == {ByteA, ByteZ}

None == <<>>
NoPush == [remote |-> "", branch |-> ""]
Lowercase == 97..122

DotHtml == <<46, 104, 116, 109, 108>>
IndexHtml == <<105, 110, 100, 101, 120>> \o DotHtml
DotSlash == <<46, 47>>

\* The command line: a url and an optional short name.
UrlArgs == {"https://example.com", "http://b.io/x", "nourl"}
ShortNameArgs == {None, <<105, 110, 100, 101, 120>>, <<97, 97, 97, 97, 97>>, <<122>>}

\* The config file as main() finds it.
CfgStates == {"valid", "empty", "malformed", "unreadable"}

\* The branch HEAD names, fixed by the operator's repository.
Branches == {"master", "main"}

VARIABLES
    files,       \* the repository directory: file name -> content
    branch,      \* the branch HEAD points to
    refs,        \* branch -> commit id, 0 when the branch is unborn
    commits,     \* the object database's commits, id = position
    origin,      \* the remote's master: commit id, 0 when absent
    pc,          \* where main() is
    url,         \* the parsed url (its serialization)
    short_name,  \* args.short_name
    file_name,   \* the artifact's file name (the candidate while probing)
    spin,        \* parity of the iterations of the allocation loop
    failure,     \* what ended the run early, "none" otherwise
    reported,    \* what the run printed
    pushReq,     \* the arguments of the push that was run, NoPush if none was
    pushStatus,  \* the push's exit status: "none", "success", "failure"
    files0,      \* files, refs and the number of commits when the run started
    refs0,
    commits0,
    log          \* one record per finished run

vars == <<files, branch, refs, commits, origin, pc, url, short_name, file_name,
          spin, failure, reported, pushReq, pushStatus, files0, refs0, commits0, log>>

repoVars == <<files, refs, commits, origin>>
argVars == <<url, short_name>>
startVars == <<files0, refs0, commits0>>

Terminal == {"done", "exited", "panicked"}

----------------------------------------------------------------------------
\* Url::parse followed by Display: special schemes get the path "/" when the
\* input has none; a string with no scheme is an error.
UrlParse(s) ==
    CASE s = "https://example.com" -> "https://example.com/"
      [] s = "http://b.io/x" -> "http://b.io/x"
      [] OTHER -> "error"

\* rng.gen_range(lo..hi): the range is half-open.
GenRange(lo, hi) == {c \in Alphabet : lo <= c /\ c < hi}

\* create_name(): NameLen characters, each drawn by gen_range(b'a'..b'z').
CreateName == [1..NameLen -> GenRange(ByteA, ByteZ)]

\* FileContent with the fallback link pointing nowhere.
FileContentNoHref(u) ==
    [kind |-> "redirect", delay |-> 0, refresh |-> u, href |-> "", label |-> "link"]

\* The redirect document of lines 144-154.
FileContent(u) ==
    [kind |-> "redirect", delay |-> 0, refresh |-> u, href |-> u, label |-> "link"]

\* The line appended to index.html, line 190; f is the artifact's file name.
LedgerEntry(u, f) ==
    [kind |-> "entry", target |-> u, href |-> DotSlash \o f, label |-> DotSlash \o f]

\* Exists with the check left out.
ExistsNever(f) == FALSE

\* Path::exists on a file of the repository directory.
Exists(f) == f \in DOMAIN files

\* WriteFile that leaves an existing file as it is (create_new).
WriteFileKeep(fs, f, c) ==
    [g \in DOMAIN fs \cup {f} |-> IF g \in DOMAIN fs THEN fs[g] ELSE <<c>>]

\* fs::write: creates the file or truncates it.
WriteFile(fs, f, c) ==
    [g \in DOMAIN fs \cup {f} |-> IF g = f THEN <<c>> ELSE fs[g]]

\* OpenOptions create+append, then write: the content goes after what is there.
AppendFile(fs, f, c) ==
    [g \in DOMAIN fs \cup {f} |->
        IF g = f THEN (IF f \in DOMAIN fs THEN fs[f] ELSE <<>>) \o <<c>> ELSE fs[g]]

\* OpenOptions create: an absent file comes to exist, empty.
CreateFile(fs, f) ==
    [g \in DOMAIN fs \cup {f} |-> IF g \in DOMAIN fs THEN fs[g] ELSE <<>>]

\* Parents with the head never looked at: every commit a root commit.
ParentsNone(h) == <<>>

\* The parent list handed to repo.commit, lines 208-214; h = 0 when repo.head() fails.
Parents(h) == IF h = 0 THEN <<>> ELSE <<h>>

\* The record of a finished run.
Finish(ok, c) ==
    log' = Append(log, [ok |-> ok, url |-> IF ok THEN url ELSE "",
                        file |-> IF ok THEN file_name ELSE None, commit |-> c])

----------------------------------------------------------------------------
Init ==
    /\ files = <<>>
    /\ branch \in Branches
    /\ refs = [b \in Branches |-> 0]
    /\ commits = <<>>
    /\ origin = 0
    /\ pc = "idle"
    /\ url = ""
    /\ short_name = None
    /\ file_name = None
    /\ spin = 0
    /\ failure = "none"
    /\ reported = {}
    /\ pushReq = NoPush
    /\ pushStatus = "none"
    /\ files0 = <<>>
    /\ refs0 = [b \in Branches |-> 0]
    /\ commits0 = 0
    /\ log = <<>>

\* Lines 64-127: the config file, the arguments, the url.
Start ==
    /\ pc \in Terminal \cup {"idle"}
    /\ Len(log) < MaxRuns
    /\ \E c \in CfgStates, a \in UrlArgs, s \in ShortNameArgs :
        /\ files0' = files
        /\ refs0' = refs
        /\ commits0' = Len(commits)
        /\ file_name' = None
        /\ spin' = 0
        /\ pushReq' = NoPush
        /\ pushStatus' = "none"
        /\ \/ /\ c = "empty"
              /\ pc' = "exited"
              /\ failure' = "config_created"
              /\ reported' = {"Info: created config file"}
              /\ url' = "" /\ short_name' = None
              /\ log' = Append(log, [ok |-> FALSE, url |-> "", file |-> None, commit |-> 0])
           \/ /\ c = "unreadable"
              /\ pc' = "exited"
              /\ failure' = "config_io"
              /\ reported' = {"Error: failed to read config file"}
              /\ url' = "" /\ short_name' = None
              /\ log' = Append(log, [ok |-> FALSE, url |-> "", file |-> None, commit |-> 0])
           \/ /\ c = "malformed"
              /\ pc' = "exited"
              /\ failure' = "config_parse"
              /\ reported' = {"Error: failed to parse config file"}
              /\ url' = "" /\ short_name' = None
              /\ log' = Append(log, [ok |-> FALSE, url |-> "", file |-> None, commit |-> 0])
           \/ /\ c = "valid"
              /\ UrlParse(a) = "error"
              /\ pc' = "exited"
              /\ failure' = "url_parse"
              /\ reported' = {"Error: failed to parse url"}
              /\ url' = "" /\ short_name' = None
              /\ log' = Append(log, [ok |-> FALSE, url |-> "", file |-> None, commit |-> 0])
           \/ /\ c = "valid"
              /\ UrlParse(a) # "error"
              /\ pc' = "open"
              /\ failure' = "none"
              /\ reported' = {}
              /\ url' = UrlParse(a)
              /\ short_name' = s
              /\ log' = log
    /\ UNCHANGED <<repoVars, branch>>

\* OpenRepo with the error arm's return left out: the run goes on.
OpenRepoNoReturn ==
    /\ pc = "open"
    /\ \/ /\ pc' = "name"
          /\ UNCHANGED <<failure, reported, log>>
       \/ /\ pc' = "name"
          /\ failure' = "repo_open"
          /\ reported' = reported \cup {"Error: failed to open repository"}
          /\ UNCHANGED log
    /\ UNCHANGED <<repoVars, branch, argVars, file_name, spin, pushReq, pushStatus, startVars>>

\* Lines 129-142: git2::Repository::open.
OpenRepo ==
    /\ pc = "open"
    /\ \/ /\ pc' = "name"
          /\ UNCHANGED <<failure, reported, log>>
       \/ /\ pc' = "exited"
          /\ failure' = "repo_open"
          /\ reported' = reported \cup {"Error: failed to open repository"}
          /\ Finish(FALSE, 0)
    /\ UNCHANGED <<repoVars, branch, argVars, file_name, spin, pushReq, pushStatus, startVars>>

\* Line 156: a short name from the command line is used as it is.
UseShortName ==
    /\ pc = "name"
    /\ short_name # None
    /\ file_name' = short_name \o DotHtml
    /\ pc' = "write"
    /\ UNCHANGED <<repoVars, branch, argVars, spin, failure, reported, pushReq,
                   pushStatus, startVars, log>>

\* Line 159: the first candidate.
FirstCandidate(n) ==
    /\ pc = "name"
    /\ short_name = None
    /\ file_name' = n \o DotHtml
    /\ pc' = "probe"
    /\ UNCHANGED <<repoVars, branch, argVars, spin, failure, reported, pushReq,
                   pushStatus, startVars, log>>

\* Lines 160-162: the candidate exists, another one is drawn.
Regenerate(n) ==
    /\ pc = "probe"
    /\ Exists(file_name)
    /\ file_name' = n \o DotHtml
    /\ spin' = 1 - spin
    /\ UNCHANGED <<repoVars, branch, argVars, pc, failure, reported, pushReq,
                   pushStatus, startVars, log>>

\* Lines 160, 163: the candidate does not exist and is the file name.
AcceptCandidate ==
    /\ pc = "probe"
    /\ ~Exists(file_name)
    /\ pc' = "write"
    /\ spin' = 0
    /\ UNCHANGED <<repoVars, branch, argVars, file_name, failure, reported, pushReq,
                   pushStatus, startVars, log>>

\* Line 167: fs::write(...).expect(...).
WriteArtifact ==
    /\ pc = "write"
    /\ \/ /\ files' = WriteFile(files, file_name, FileContent(url))
          /\ pc' = "ledger"
          /\ UNCHANGED <<failure, reported, log>>
       \/ /\ pc' = "panicked"
          /\ failure' = "write"
          /\ reported' = reported \cup {"Failed to write file for redirection to url"}
          /\ Finish(FALSE, 0)
          /\ UNCHANGED files
    /\ UNCHANGED <<refs, commits, origin, branch, argVars, file_name, spin, pushReq,
                   pushStatus, startVars>>

\* Lines 169-191: index.html is opened for append and one entry is written.
AppendLedger ==
    /\ pc = "ledger"
    /\ \/ /\ files' = AppendFile(files, IndexHtml, LedgerEntry(url, file_name))
          /\ pc' = "commit"
          /\ UNCHANGED <<failure, reported, log>>
       \/ /\ pc' = "exited"
          /\ failure' = "ledger_open"
          /\ reported' = reported \cup {"Error: failed to create config file"}
          /\ Finish(FALSE, 0)
          /\ UNCHANGED files
       \/ /\ pc' = "panicked"
          /\ failure' = "ledger_write"
          /\ reported' = reported \cup {"Failed to write to index.html"}
          /\ Finish(FALSE, 0)
          /\ files' = CreateFile(files, IndexHtml)
    /\ UNCHANGED <<refs, commits, origin, branch, argVars, file_name, spin, pushReq,
                   pushStatus, startVars>>

\* Commit that removes the run's artifact when it fails.
CommitWithCleanup ==
    /\ pc = "commit"
    /\ \/ /\ commits' = Append(commits, [parents |-> IF refs[branch] = 0 THEN <<>> ELSE <<refs[branch]>>,
                                          tree |-> files,
                                          message |-> <<"Add redirect to ", url>>])
          /\ refs' = [refs EXCEPT ![branch] = Len(commits) + 1]
          /\ reported' = reported \cup {"Created commit with object id"}
          /\ pc' = "push"
          /\ UNCHANGED <<failure, log, files>>
       \/ /\ \E f \in {"stage", "tree", "commit"} : failure' = f
          /\ pc' = "panicked"
          /\ reported' = reported \cup {"panic"}
          /\ Finish(FALSE, 0)
          /\ files' = [g \in DOMAIN files \ {file_name} |-> files[g]]
          /\ UNCHANGED <<commits, refs>>
    /\ UNCHANGED <<origin, branch, argVars, file_name, spin, pushReq,
                   pushStatus, startVars>>

\* Lines 193-218: add_all, write_tree, repo.head(), repo.commit(Some("HEAD"), ...).
Commit ==
    /\ pc = "commit"
    /\ \/ /\ commits' = Append(commits, [parents |-> Parents(refs[branch]),
                                          tree |-> files,
                                          message |-> <<"Add redirect to ", url>>])
          /\ refs' = [refs EXCEPT ![branch] = Len(commits) + 1]
          /\ reported' = reported \cup {"Created commit with object id"}
          /\ pc' = "push"
          /\ UNCHANGED <<failure, log>>
       \/ /\ \E f \in {"stage", "tree", "commit"} : failure' = f
          /\ pc' = "panicked"
          /\ reported' = reported \cup {"panic"}
          /\ Finish(FALSE, 0)
          /\ UNCHANGED <<commits, refs>>
    /\ UNCHANGED <<files, origin, branch, argVars, file_name, spin, pushReq,
                   pushStatus, startVars>>

\* Lines 220-227: Command::new("git") push origin master, .status().expect(...).
\* The exit status is not looked at.
Push ==
    /\ pc = "push"
    /\ \/ /\ pc' = "panicked"
          /\ failure' = "push_spawn"
          /\ reported' = reported \cup {"Failed to push to upstream: try running git push manually"}
          /\ Finish(FALSE, Len(commits))
          /\ UNCHANGED <<origin, pushReq, pushStatus>>
       \/ /\ pushReq' = [remote |-> "origin", branch |-> "master"]
          /\ \/ /\ refs["master"] # 0
                /\ origin' = refs["master"]
                /\ pushStatus' = "success"
             \/ /\ pushStatus' = "failure"
                /\ UNCHANGED origin
          /\ pc' = "done"
          /\ Finish(TRUE, Len(commits))
          /\ UNCHANGED <<failure, reported>>
    /\ UNCHANGED <<files, refs, commits, branch, argVars, file_name, spin, startVars>>

Next ==
    \/ Start
    \/ OpenRepo
    \/ UseShortName
    \/ \E n \in CreateName : FirstCandidate(n)
    \/ \E n \in CreateName : Regenerate(n)
    \/ AcceptCandidate
    \/ WriteArtifact
    \/ AppendLedger
    \/ Commit
    \/ Push

Spec == Init /\ [][Next]_vars

\* A running process keeps running, and every name create_name can return is
\* returned again and again while the allocation loop runs.
FairSpec ==
    /\ Spec
    /\ WF_vars(Next)
    /\ \A n \in CreateName : WF_vars(Regenerate(n))
----------------------------------------------------------------------------
\* Helpers of the properties.

\* The ledger entries of a file's content, in order.
IsEntry(d) == d.kind = "entry"
Entries(c) == SelectSeq(c, IsEntry)

\* The content of a file, empty when the file is absent.
ContentOf(fs, f) == IF f \in DOMAIN fs THEN fs[f] ELSE <<>>

AllOk == \A k \in 1..Len(log) : log[k].ok

\* Every name of NameLen lowercase letters the model knows.
AllNames == [1..NameLen -> Alphabet \cap Lowercase]

\* The run has chosen its file name.
Named == file_name # None /\ pc \notin {"name", "probe"}

\* The name part of the artifact's file name.
StemOf(f) == SubSeq(f, 1, Len(f) - Len(DotHtml))

----------------------------------------------------------------------------
\* C1: starting from an empty repository, the first commit has no parent, every
\* later commit has exactly one parent, the commit the head pointed to when its run
\* started, which is the commit of the run before; the head points to the last
\* commit, and the k-th of a sequence of successful runs made the k-th commit.
C1_LinearHistory ==
    /\ \A i \in 1..Len(commits) :
          commits[i].parents = IF i = 1 THEN <<>> ELSE <<i - 1>>
    /\ refs[branch] = Len(commits)
    /\ Len(commits) > commits0 =>
          /\ Len(commits) = commits0 + 1
          /\ commits[Len(commits)].parents =
                IF refs0[branch] = 0 THEN <<>> ELSE <<refs0[branch]>>
    /\ AllOk => \A k \in 1..Len(log) : log[k].commit = k

C1_Witness ==
    /\ pc = "done"
    /\ Len(log) = 3
    /\ AllOk
    /\ Len(commits) = 3
    /\ commits[1].parents = <<>>
    /\ commits[3].parents = <<2>>
    /\ refs[branch] = 3

\* C2: after N successful runs starting with no index.html, the ledger entries of
\* index.html are exactly the N entries of the runs, in run order.
C2_LedgerOneEntryPerRun ==
    (pc \in Terminal /\ AllOk) =>
        Entries(ContentOf(files, IndexHtml)) =
            [k \in 1..Len(log) |-> LedgerEntry(log[k].url, log[k].file)]

\* C3: a generated name has 5 characters, all lowercase letters, and no file
\* <name>.html was in the directory before the run wrote its artifact.
C3_GeneratedNameFresh ==
    (short_name = None /\ Named) =>
        /\ file_name = StemOf(file_name) \o DotHtml
        /\ Len(StemOf(file_name)) = 5
        /\ \A i \in 1..Len(StemOf(file_name)) : StemOf(file_name)[i] \in Lowercase
        /\ file_name \notin DOMAIN files0
        /\ pc = "write" => file_name \notin DOMAIN files

C3_Witness ==
    /\ short_name = None
    /\ pc = "done"
    /\ DOMAIN files0 # {}
    /\ file_name \in DOMAIN files

\* C4 as stated: the artifact written for u refreshes to u with delay 0, and its
\* fallback link has href u and label text u.
C4_LabelIsUrl ==
    pc = "ledger" =>
        /\ files[file_name][1].kind = "redirect"
        /\ files[file_name][1].delay = 0
        /\ files[file_name][1].refresh = url
        /\ files[file_name][1].href = url
        /\ files[file_name][1].label = url

\* C4 as amended: the artifact written for u refreshes to u with delay 0, and its
\* fallback link has href u and the fixed label text "link".
C4_ArtifactTargetsUrl ==
    pc = "ledger" =>
        /\ Len(files[file_name]) = 1
        /\ files[file_name][1].kind = "redirect"
        /\ files[file_name][1].delay = 0
        /\ files[file_name][1].refresh = url
        /\ files[file_name][1].href = url
        /\ files[file_name][1].label = "link"
        /\ url \in {UrlParse(a) : a \in UrlArgs} \ {"error"}

C4_Witness ==
    /\ pc = "ledger"
    /\ url = "https://example.com/"
    /\ files[file_name][1].refresh = "https://example.com/"

\* C5: a run with a short name whose <name>.html exists goes from naming to writing
\* with no check and no error, the write replaces the file's content by the new
\* artifact and leaves the other files alone, and the ledger step appends exactly
\* one entry to index.html.
C5_ShortNameOverwrites ==
    [][(short_name # None /\ (short_name \o DotHtml) \in DOMAIN files0) =>
        /\ pc = "name" =>
              /\ pc' = "write"
              /\ file_name' = short_name \o DotHtml
              /\ failure' = "none"
              /\ files' = files
        /\ (pc = "write" /\ pc' = "ledger") =>
              /\ files'[file_name] = <<FileContent(url)>>
              /\ DOMAIN files' = DOMAIN files
              /\ \A g \in DOMAIN files \ {file_name} : files'[g] = files[g]
        /\ (pc = "ledger" /\ pc' = "commit") =>
              /\ files'[IndexHtml] =
                    ContentOf(files, IndexHtml) \o <<LedgerEntry(url, file_name)>>
              /\ \A g \in DOMAIN files \ {IndexHtml} : files'[g] = files[g]
      ]_vars

C5_Witness ==
    /\ pc = "done"
    /\ short_name # None
    /\ file_name # IndexHtml
    /\ file_name \in DOMAIN files0
    /\ IndexHtml \in DOMAIN files0
    /\ files0[file_name][1].kind = "redirect"
    /\ files0[file_name][1].href # url
    /\ files[file_name] = <<FileContent(url)>>
    /\ Len(Entries(files[IndexHtml])) = Len(Entries(files0[IndexHtml])) + 1

\* C6: when the repository cannot be opened the run ends in failure with every file
\* as it was, no commit made, the head where it was and no push run.
C6_OpenFailureTouchesNothing ==
    failure = "repo_open" =>
        /\ pc = "exited"
        /\ files = files0
        /\ refs = refs0
        /\ Len(commits) = commits0
        /\ pushReq = NoPush
        /\ ~log[Len(log)].ok

C6_Witness ==
    /\ failure = "repo_open"
    /\ pc = "exited"
    /\ DOMAIN files # {}
    /\ Len(commits) = 1

\* C7: the push that is run names the remote origin and the branch that is checked
\* out.
C7_PushesCheckedOutBranch ==
    pushReq # NoPush => (pushReq.remote = "origin" /\ pushReq.branch = branch)

\* C8: a push is run only after the run's commit was made; a push that cannot be
\* started or exits unsuccessfully is reported, and the commit, the artifact and the
\* ledger entry stay.
C8_PushFailureReported ==
    /\ pushReq # NoPush => (Len(commits) = commits0 + 1 /\ refs[branch] = Len(commits))
    /\ (failure = "push_spawn" \/ pushStatus = "failure") =>
          /\ \E m \in reported : m = "Failed to push to upstream: try running git push manually"
          /\ refs[branch] = commits0 + 1
          /\ Len(commits) = commits0 + 1
          /\ file_name \in DOMAIN files
          /\ files[file_name][1] = FileContent(url)
          /\ files[IndexHtml][Len(files[IndexHtml])] = LedgerEntry(url, file_name)

\* C9: when staging, tree writing or commit creation fails the run ends with no
\* push run, the head and the commits as they were when the run started, and the
\* run's artifact and ledger entry still in the directory.
C9_CommitFailureLeavesFiles ==
    failure \in {"stage", "tree", "commit"} =>
        /\ pc = "panicked"
        /\ pushReq = NoPush
        /\ pushStatus = "none"
        /\ refs = refs0
        /\ Len(commits) = commits0
        /\ file_name \in DOMAIN files
        /\ files[file_name][1] = FileContent(url)
        /\ IndexHtml \in DOMAIN files
        /\ files[IndexHtml][Len(files[IndexHtml])] = LedgerEntry(url, file_name)
        /\ ~log[Len(log)].ok

C9_Witness ==
    /\ failure = "commit"
    /\ pc = "panicked"
    /\ Len(commits) = 1
    /\ Len(files[IndexHtml]) = 2

\* C10: the allocation loop ends whenever some name of 5 lowercase letters (a to z)
\* has no artifact in the directory.
C10_AllocatorTerminates ==
    (pc = "probe" /\ \E n \in AllNames : (n \o DotHtml) \notin DOMAIN files)
        ~> (pc # "probe")
====
